---------------------------- MODULE Spec2Model ----------------------------
(***************************************************************************)
(* Orchestration engine of the multi-agent tutor (App component):          *)
(* the shared session state, the next-agent selector determineNextAgent,   *)
(* the turn loop runStep with its pacing timer, startSession and the       *)
(* human gate handleHumanSubmit, together with the two guards the          *)
(* rendered page puts in front of them (the START button is disabled       *)
(* while isProcessing or with an empty topic; the SUBMIT button exists     *)
(* only while showHumanPrompt).                                            *)
(*                                                                         *)
(* Numbers: confidence is kept in tenths (0.8 is 8).  A log entry's id     *)
(* (Math.random) and timestamp (new Date) are left out: nothing reads      *)
(* them.  A template literal is the sequence of its parts.                 *)
(***************************************************************************)
EXTENDS Integers, Sequences, FiniteSets, TLC

\* ------------------------------------------------------------------ bounds
\* Number of times START TUTORING is accepted in one behaviour.
MaxSessions == 2
\* Number of agent invocations (calls of callAgent) started in one behaviour.
MaxInvocations == 7

\* ------------------------------------------------------------- JS values
NULL == "<null>"
UNDEFINED == "<undefined>"
JS_TRUE == "true"
JS_FALSE == "false"

\* JavaScript truthiness of a string | null field and of a boolean | null field.
Truthy(v) == v # NULL /\ v # UNDEFINED /\ v # "" /\ v # JS_FALSE

\* ------------------------------------------------------------ enum Agent
SUPERVISOR == "SUPERVISOR"
CURRICULUM_PLANNER == "CURRICULUM_PLANNER"
CONCEPT_EXPLAINER == "CONCEPT_EXPLAINER"
QUIZ_GENERATOR == "QUIZ_GENERATOR"
FEEDBACK_ANALYZER == "FEEDBACK_ANALYZER"
MOTIVATOR == "MOTIVATOR"
QUALITY_REVIEWER == "QUALITY_REVIEWER"
HUMAN_APPROVAL == "HUMAN_APPROVAL"
END == "END"

Agent == {SUPERVISOR, CURRICULUM_PLANNER, CONCEPT_EXPLAINER, QUIZ_GENERATOR,
          FEEDBACK_ANALYZER, MOTIVATOR, QUALITY_REVIEWER, HUMAN_APPROVAL, END}

\* The six agents that produce or judge an artifact.
WorkingAgents == {CURRICULUM_PLANNER, CONCEPT_EXPLAINER, QUIZ_GENERATOR,
                  FEEDBACK_ANALYZER, MOTIVATOR, QUALITY_REVIEWER}

\* ------------------------------------------------------------ user inputs
\* What the user may have in the topic box, the difficulty select and the
\* human-input textarea.
Topics == {"", "Photosynthesis"}
Difficulties == {"Beginner", "Expert"}
HumanTexts == {"", "B, A, C"}

\* --------------------------------------------------------- INITIAL_STATE
MaxTurns == 15
ConfidenceThreshold == 8

INITIAL_STATE ==
  [ topic            |-> "",
    difficulty       |-> "Beginner",
    lessonPlan       |-> NULL,
    explanation      |-> NULL,
    quiz             |-> NULL,
    studentAnswers   |-> NULL,
    feedback         |-> NULL,
    motivatorMessage |-> NULL,
    reviewerApproved |-> NULL,
    reviewerComments |-> NULL,
    confidence       |-> 0,
    turnCount        |-> 0,
    maxTurns         |-> MaxTurns ]

VARIABLES
  state,            \* useState<SharedState>
  logs,             \* useState<LogEntry[]>
  isProcessing,     \* useState(false)
  topicInput,       \* useState('')
  difficultyInput,  \* useState('Beginner')
  humanInput,       \* useState('')
  showHumanPrompt,  \* useState(false)
  currentStep,      \* useState<Agent | null>
  inflight,         \* runStep calls suspended at `await callAgent(...)`
  timers,           \* continuations queued by setTimeout(..., 800)
  started,          \* number of sessions started so far
  budget            \* number of agent invocations the behaviour may still start

vars == <<state, logs, isProcessing, topicInput, difficultyInput, humanInput,
          showHumanPrompt, currentStep, inflight, timers, started, budget>>

\* ---------------------------------------------------------------- addLog
LogEntry(agent, content, type, reason) ==
  [agent |-> agent, content |-> content, type |-> type, reason |-> reason]

addLog(prev, agent, content, type, reason) ==
  Append(prev, LogEntry(agent, content, type, reason))

\* ---------------------------------------------------- determineNextAgent
\* Mutant: the Feedback-Analyzer rule (line 59) is missing.
determineNextAgent_NoFeedbackRule(s) ==
  IF s.turnCount >= s.maxTurns THEN END
  ELSE IF ~Truthy(s.lessonPlan) THEN CURRICULUM_PLANNER
  ELSE IF ~Truthy(s.explanation) THEN CONCEPT_EXPLAINER
  ELSE IF ~Truthy(s.quiz) THEN QUIZ_GENERATOR
  ELSE IF Truthy(s.quiz) /\ ~Truthy(s.studentAnswers) THEN HUMAN_APPROVAL
  ELSE IF Truthy(s.feedback) /\ ~Truthy(s.motivatorMessage) THEN MOTIVATOR
  ELSE IF Truthy(s.motivatorMessage) /\ s.reviewerApproved = NULL THEN QUALITY_REVIEWER
  ELSE IF Truthy(s.reviewerApproved) /\ s.confidence >= ConfidenceThreshold THEN END
  ELSE IF s.reviewerApproved = JS_FALSE THEN HUMAN_APPROVAL
  ELSE END

\* Mutant: the turn cap (line 52) is tested with > instead of >=.
determineNextAgent_StrictCap(s) ==
  IF s.turnCount > s.maxTurns THEN END
  ELSE IF ~Truthy(s.lessonPlan) THEN CURRICULUM_PLANNER
  ELSE IF ~Truthy(s.explanation) THEN CONCEPT_EXPLAINER
  ELSE IF ~Truthy(s.quiz) THEN QUIZ_GENERATOR
  ELSE IF Truthy(s.quiz) /\ ~Truthy(s.studentAnswers) THEN HUMAN_APPROVAL
  ELSE IF Truthy(s.studentAnswers) /\ ~Truthy(s.feedback) THEN FEEDBACK_ANALYZER
  ELSE IF Truthy(s.feedback) /\ ~Truthy(s.motivatorMessage) THEN MOTIVATOR
  ELSE IF Truthy(s.motivatorMessage) /\ s.reviewerApproved = NULL THEN QUALITY_REVIEWER
  ELSE IF Truthy(s.reviewerApproved) /\ s.confidence >= ConfidenceThreshold THEN END
  ELSE IF s.reviewerApproved = JS_FALSE THEN HUMAN_APPROVAL
  ELSE END

\* Mutant: an approval below the confidence threshold goes to the human gate.
determineNextAgent_LowConfidenceToHuman(s) ==
  IF s.turnCount >= s.maxTurns THEN END
  ELSE IF ~Truthy(s.lessonPlan) THEN CURRICULUM_PLANNER
  ELSE IF ~Truthy(s.explanation) THEN CONCEPT_EXPLAINER
  ELSE IF ~Truthy(s.quiz) THEN QUIZ_GENERATOR
  ELSE IF Truthy(s.quiz) /\ ~Truthy(s.studentAnswers) THEN HUMAN_APPROVAL
  ELSE IF Truthy(s.studentAnswers) /\ ~Truthy(s.feedback) THEN FEEDBACK_ANALYZER
  ELSE IF Truthy(s.feedback) /\ ~Truthy(s.motivatorMessage) THEN MOTIVATOR
  ELSE IF Truthy(s.motivatorMessage) /\ s.reviewerApproved = NULL THEN QUALITY_REVIEWER
  ELSE IF Truthy(s.reviewerApproved) /\ s.confidence >= ConfidenceThreshold THEN END
  ELSE IF s.reviewerApproved = JS_FALSE \/ Truthy(s.reviewerApproved) THEN HUMAN_APPROVAL
  ELSE END

determineNextAgent(s) ==
  IF s.turnCount >= s.maxTurns THEN END
  ELSE IF ~Truthy(s.lessonPlan) THEN CURRICULUM_PLANNER
  ELSE IF ~Truthy(s.explanation) THEN CONCEPT_EXPLAINER
  ELSE IF ~Truthy(s.quiz) THEN QUIZ_GENERATOR
  ELSE IF Truthy(s.quiz) /\ ~Truthy(s.studentAnswers) THEN HUMAN_APPROVAL
  ELSE IF Truthy(s.studentAnswers) /\ ~Truthy(s.feedback) THEN FEEDBACK_ANALYZER
  ELSE IF Truthy(s.feedback) /\ ~Truthy(s.motivatorMessage) THEN MOTIVATOR
  ELSE IF Truthy(s.motivatorMessage) /\ s.reviewerApproved = NULL THEN QUALITY_REVIEWER
  ELSE IF Truthy(s.reviewerApproved) /\ s.confidence >= ConfidenceThreshold THEN END
  ELSE IF s.reviewerApproved = JS_FALSE THEN HUMAN_APPROVAL
  ELSE END

\* ------------------------------------------------------------- callAgent
\* The text of the service's response for an agent: free text, nothing, or
\* for the Quality-Reviewer the JSON the response schema asks for.
ApprovedHigh == "{\"approved\":true,\"comments\":\"ok\",\"confidence\":0.9}"
ApprovedEdge == "{\"approved\":true,\"comments\":\"ok\",\"confidence\":0.8}"
ApprovedLow  == "{\"approved\":true,\"comments\":\"ok\",\"confidence\":0.5}"
Rejected     == "{\"approved\":false,\"comments\":\"redo\",\"confidence\":0.9}"
NoVerdict    == "{\"comments\":\"ok\",\"confidence\":0.9}"

ResponseTexts(agent) ==
  IF agent = QUALITY_REVIEWER
  THEN {"", ApprovedHigh, ApprovedEdge, ApprovedLow, Rejected, NoVerdict}
  ELSE {"generated text"}

\* return response.text || "No response generated."
callAgent(text) == IF text = "" THEN "No response generated." ELSE text

\* JSON.parse(output) followed by the reads of .approved, .comments and
\* .confidence; a missing property reads as undefined.
JSONparses(output) ==
  output \in {ApprovedHigh, ApprovedEdge, ApprovedLow, Rejected, NoVerdict}

JSONparse(output) ==
  CASE output = ApprovedHigh -> [approved |-> JS_TRUE,  comments |-> "ok",   confidence |-> 9]
    [] output = ApprovedEdge -> [approved |-> JS_TRUE,  comments |-> "ok",   confidence |-> 8]
    [] output = ApprovedLow  -> [approved |-> JS_TRUE,  comments |-> "ok",   confidence |-> 5]
    [] output = Rejected     -> [approved |-> JS_FALSE, comments |-> "redo", confidence |-> 9]
    [] output = NoVerdict    -> [approved |-> UNDEFINED, comments |-> "ok",  confidence |-> 9]

\* --------------------------------------------------------------- runStep
\* Lines 75-80: the synchronous head of runStep, up to the await.
runStepBegin(targetAgent, currentState, prevLogs) ==
  /\ budget > 0
  /\ budget' = budget - 1
  /\ isProcessing' = TRUE
  /\ currentStep' = targetAgent
  /\ logs' = addLog(prevLogs, targetAgent, <<"Agent ", targetAgent, " starting...">>,
                    "status", UNDEFINED)
  /\ inflight' = Append(inflight,
                        [targetAgent |-> targetAgent, currentState |-> currentState])

\* Lines 81-105: the turn counter and the agent's designated field(s).
applyOutput(targetAgent, currentState, output) ==
  LET counted == [currentState EXCEPT !.turnCount = currentState.turnCount + 1]
  IN CASE targetAgent = CURRICULUM_PLANNER -> [counted EXCEPT !.lessonPlan = output]
       [] targetAgent = CONCEPT_EXPLAINER  -> [counted EXCEPT !.explanation = output]
       [] targetAgent = QUIZ_GENERATOR     -> [counted EXCEPT !.quiz = output]
       [] targetAgent = FEEDBACK_ANALYZER  -> [counted EXCEPT !.feedback = output]
       [] targetAgent = MOTIVATOR          -> [counted EXCEPT !.motivatorMessage = output]
       [] targetAgent = QUALITY_REVIEWER   ->
            [counted EXCEPT !.reviewerApproved = JSONparse(output).approved,
                            !.reviewerComments = JSONparse(output).comments,
                            !.confidence = JSONparse(output).confidence]
       [] OTHER -> counted

RemoveAt(seq, i) == SubSeq(seq, 1, i - 1) \o SubSeq(seq, i + 1, Len(seq))

\* Lines 122-127: catch and finally.
runStepCatch(i) ==
  /\ logs' = addLog(logs, inflight[i].targetAgent, <<"Execution failed.">>,
                    "error", UNDEFINED)
  /\ isProcessing' = FALSE
  /\ currentStep' = NULL
  /\ inflight' = RemoveAt(inflight, i)
  /\ UNCHANGED <<state, showHumanPrompt, timers, topicInput, difficultyInput,
                 humanInput, started, budget>>

\* Lines 107-120 and 124-127: the turn's result is logged and stored, the
\* selector decides what follows, and finally clears the busy flag.
runStepFold(i, output) ==
  LET targetAgent == inflight[i].targetAgent
      updatedState == applyOutput(targetAgent, inflight[i].currentState, output)
      next == determineNextAgent(updatedState)
      logged == addLog(logs, targetAgent, <<output>>, "output", UNDEFINED)
  IN /\ state' = updatedState
     /\ IF next = HUMAN_APPROVAL
        THEN /\ showHumanPrompt' = TRUE
             /\ logs' = addLog(logged, SUPERVISOR, <<"Awaiting human intervention.">>,
                               "decision",
                               "Human input required for student answers or system adjustment.")
             /\ timers' = timers
        ELSE IF next # END
        THEN /\ timers' = Append(timers, [next |-> next, updatedState |-> updatedState])
             /\ logs' = logged
             /\ showHumanPrompt' = showHumanPrompt
        ELSE /\ logs' = addLog(logged, END,
                               <<"Learning objective reached or max turns exceeded.">>,
                               "status", UNDEFINED)
             /\ timers' = timers
             /\ showHumanPrompt' = showHumanPrompt
     /\ isProcessing' = FALSE
     /\ currentStep' = NULL
     /\ inflight' = RemoveAt(inflight, i)
     /\ UNCHANGED <<topicInput, difficultyInput, humanInput, started, budget>>

\* The awaited promise of invocation i resolves with the service's text.
InvokerResolve(i, text) ==
  /\ i \in 1..Len(inflight)
  /\ text \in ResponseTexts(inflight[i].targetAgent)
  /\ IF inflight[i].targetAgent = QUALITY_REVIEWER /\ ~JSONparses(callAgent(text))
     THEN runStepCatch(i)
     ELSE runStepFold(i, callAgent(text))

\* The awaited promise of invocation i rejects (callAgent rethrows).
InvokerReject(i) ==
  /\ i \in 1..Len(inflight)
  /\ runStepCatch(i)

\* The 800 ms timers all have the same delay: they fire in the order set.
TimerFire ==
  /\ timers # <<>>
  /\ runStepBegin(Head(timers).next, Head(timers).updatedState, logs)
  /\ timers' = Tail(timers)
  /\ UNCHANGED <<state, showHumanPrompt, topicInput, difficultyInput, humanInput,
                 started>>

\* ---------------------------------------------------------- startSession
\* Mutant: the handler without the empty-topic return of line 131.
startSession_NoTopicCheck ==
  LET s == [INITIAL_STATE EXCEPT !.topic = topicInput,
                                 !.difficulty = difficultyInput]
  IN /\ state' = s
     /\ runStepBegin(CURRICULUM_PLANNER, s,
          addLog(<<>>, SUPERVISOR,
                 <<"Initializing session for: ", topicInput, " (",
                   difficultyInput, ")">>, "status", UNDEFINED))
     /\ started' = started + 1
     /\ UNCHANGED <<showHumanPrompt, timers, topicInput, difficultyInput,
                    humanInput>>

startSession ==
  IF topicInput = "" THEN UNCHANGED vars
  ELSE LET s == [INITIAL_STATE EXCEPT !.topic = topicInput,
                                      !.difficulty = difficultyInput]
       IN /\ state' = s
          /\ runStepBegin(CURRICULUM_PLANNER, s,
               addLog(<<>>, SUPERVISOR,
                      <<"Initializing session for: ", topicInput, " (",
                        difficultyInput, ")">>, "status", UNDEFINED))
          /\ started' = started + 1
          /\ UNCHANGED <<showHumanPrompt, timers, topicInput, difficultyInput,
                         humanInput>>

\* ----------------------------------------------------- handleHumanSubmit
\* Mutant: the context test without the quiz (the first half of line 144).
StudentContext_AnswersOnly(s) == ~Truthy(s.studentAnswers)

\* The condition of lines 144 and 284: the human is answering the quiz.
StudentContext(s) == Truthy(s.quiz) /\ ~Truthy(s.studentAnswers)

handleHumanSubmit ==
  IF humanInput = "" THEN UNCHANGED vars
  ELSE LET updatedState == IF StudentContext(state)
                           THEN [state EXCEPT !.studentAnswers = humanInput]
                           ELSE state
           entry == IF StudentContext(state)
                    THEN <<"Student Answer: ", humanInput>>
                    ELSE <<"Human feedback: ", humanInput>>
           next == determineNextAgent(updatedState)
       IN /\ showHumanPrompt' = FALSE
          /\ humanInput' = ""
          /\ state' = updatedState
          /\ runStepBegin(next, updatedState,
               addLog(logs, HUMAN_APPROVAL, entry, "output", UNDEFINED))
          /\ UNCHANGED <<timers, topicInput, difficultyInput, started>>

\* ------------------------------------------------------- the rendered page
\* Lines 179 and 189: the topic box and the difficulty select are disabled.
ConfigDisabled == state.turnCount > 0 /\ state.reviewerApproved # JS_TRUE

\* Line 201: the START button is disabled.
StartDisabled == isProcessing \/ topicInput = ""

\* Mutant: the hint looks at the quiz alone.
ContextHint_QuizOnly ==
  IF Truthy(state.quiz) THEN "STUDENT" ELSE "SUPERVISOR"

\* Lines 284-286: the hint shown in the human-input panel.
ContextHint ==
  IF Truthy(state.quiz) /\ ~Truthy(state.studentAnswers)
  THEN "STUDENT" ELSE "SUPERVISOR"

TypeTopic(t) ==
  /\ ~ConfigDisabled
  /\ t \in Topics
  /\ t # topicInput
  /\ topicInput' = t
  /\ UNCHANGED <<state, logs, isProcessing, difficultyInput, humanInput,
                 showHumanPrompt, currentStep, inflight, timers, started, budget>>

SelectDifficulty(d) ==
  /\ ~ConfigDisabled
  /\ d \in Difficulties
  /\ d # difficultyInput
  /\ difficultyInput' = d
  /\ UNCHANGED <<state, logs, isProcessing, topicInput, humanInput,
                 showHumanPrompt, currentStep, inflight, timers, started, budget>>

TypeHumanInput(x) ==
  /\ showHumanPrompt
  /\ x \in HumanTexts
  /\ x # humanInput
  /\ humanInput' = x
  /\ UNCHANGED <<state, logs, isProcessing, topicInput, difficultyInput,
                 showHumanPrompt, currentStep, inflight, timers, started, budget>>

ClickStart ==
  /\ ~StartDisabled
  /\ started < MaxSessions
  /\ startSession

ClickSubmit ==
  /\ showHumanPrompt
  /\ handleHumanSubmit

\* ------------------------------------------------------------------ Spec
Init ==
  /\ state = INITIAL_STATE
  /\ logs = <<>>
  /\ isProcessing = FALSE
  /\ topicInput = ""
  /\ difficultyInput = "Beginner"
  /\ humanInput = ""
  /\ showHumanPrompt = FALSE
  /\ currentStep = NULL
  /\ inflight = <<>>
  /\ timers = <<>>
  /\ started = 0
  /\ budget = MaxInvocations

Resolve == \E i \in 1..Len(inflight) :
             \E text \in ResponseTexts(inflight[i].targetAgent) : InvokerResolve(i, text)

Reject == \E i \in 1..Len(inflight) : InvokerReject(i)

Next ==
  \/ \E t \in Topics : TypeTopic(t)
  \/ \E d \in Difficulties : SelectDifficulty(d)
  \/ \E x \in HumanTexts : TypeHumanInput(x)
  \/ ClickStart
  \/ ClickSubmit
  \/ Resolve
  \/ Reject
  \/ TimerFire

Spec == Init /\ [][Next]_vars

\* ------------------------------------------------------------- SpecLong
\* A slice of the same program that is long enough to reach maxTurns: a
\* larger invocation budget, a service that always answers and whose
\* reviewer always rejects, a pacing timer that is shorter than any answer
\* of the service, and a user who types once and presses SUBMIT only while
\* the page is not busy.  Every behaviour of SpecLong is, but for the budget,
\* a behaviour of Spec.
LongInvocations == 19

InitLong ==
  /\ state = INITIAL_STATE
  /\ logs = <<>>
  /\ isProcessing = FALSE
  /\ topicInput = ""
  /\ difficultyInput = "Beginner"
  /\ humanInput = ""
  /\ showHumanPrompt = FALSE
  /\ currentStep = NULL
  /\ inflight = <<>>
  /\ timers = <<>>
  /\ started = 0
  /\ budget = LongInvocations

ResolveRejecting ==
  /\ timers = <<>>
  /\ \E i \in 1..Len(inflight) :
       InvokerResolve(i, IF inflight[i].targetAgent = QUALITY_REVIEWER
                         THEN Rejected ELSE "generated text")

ClickSubmitIdle ==
  /\ ~isProcessing
  /\ ClickSubmit

NextLong ==
  \/ TypeTopic("Photosynthesis")
  \/ TypeHumanInput("B, A, C")
  \/ ClickStart
  \/ ClickSubmitIdle
  \/ ResolveRejecting
  \/ TimerFire

SpecLong == InitLong /\ [][NextLong]_vars

\* ---------------------------------------------------------- SpecSelector
\* determineNextAgent applied to every session state over bounded field
\* values, reachable by the loop or not.
SelectorStates ==
  { [INITIAL_STATE EXCEPT !.lessonPlan = lp, !.explanation = ex, !.quiz = qz,
                          !.studentAnswers = sa, !.feedback = fb,
                          !.motivatorMessage = mm, !.reviewerApproved = ra,
                          !.confidence = cf, !.turnCount = tc] :
      lp \in {NULL, "set"}, ex \in {NULL, "set"}, qz \in {NULL, "set"},
      sa \in {NULL, "set"}, fb \in {NULL, "set"}, mm \in {NULL, "set"},
      ra \in {NULL, JS_TRUE, JS_FALSE}, cf \in {0, 5, 8, 9},
      tc \in {0, MaxTurns - 1, MaxTurns, MaxTurns + 1} }

InitSelector ==
  /\ state \in SelectorStates
  /\ logs = <<>>
  /\ isProcessing = FALSE
  /\ topicInput = ""
  /\ difficultyInput = "Beginner"
  /\ humanInput = ""
  /\ showHumanPrompt = FALSE
  /\ currentStep = NULL
  /\ inflight = <<>>
  /\ timers = <<>>
  /\ started = 0
  /\ budget = 0

\* The selector's decision for the state, kept where runStep keeps its target.
Select ==
  /\ currentStep = NULL
  /\ currentStep' = determineNextAgent(state)
  /\ UNCHANGED <<state, logs, isProcessing, topicInput, difficultyInput,
                 humanInput, showHumanPrompt, inflight, timers, started, budget>>

NextSelector == Select

SpecSelector == InitSelector /\ [][NextSelector]_vars

\* ------------------------------------------------------------ SpecHandlers
\* The two handlers called directly, as the session control surface offers
\* them, with whatever the input boxes hold: the buttons' disabled and
\* rendered conditions are not in the way.  The difficulty select keeps its
\* initial value: neither handler tests it.
CallStart ==
  /\ started < MaxSessions
  /\ startSession

CallSubmit == handleHumanSubmit

NextHandlers ==
  \/ \E t \in Topics : TypeTopic(t)
  \/ \E x \in HumanTexts : TypeHumanInput(x)
  \/ CallStart
  \/ CallSubmit
  \/ Resolve
  \/ Reject
  \/ TimerFire

SpecHandlers == Init /\ [][NextHandlers]_vars

\* ------------------------------------------------------------ SpecRestarts
\* The page with one more restart than Spec allows.
ClickStartAgain ==
  /\ ~StartDisabled
  /\ started <= MaxSessions
  /\ startSession

NextRestarts ==
  \/ \E t \in Topics : TypeTopic(t)
  \/ \E d \in Difficulties : SelectDifficulty(d)
  \/ \E x \in HumanTexts : TypeHumanInput(x)
  \/ ClickStartAgain
  \/ ClickSubmit
  \/ Resolve
  \/ Reject
  \/ TimerFire

SpecRestarts == Init /\ [][NextRestarts]_vars

\* ---------------------------------------------------------------- SpecFair
\* The page under the fairness the termination claim assumes: every call to
\* the service comes back with a usable response, every 800 ms timer fires
\* (before the slower service responds), and the human types an answer and
\* submits it whenever the loop is suspended.  START can still be clicked
\* whenever it is enabled.
FairInvocations == 40

InitFair ==
  /\ state = INITIAL_STATE
  /\ logs = <<>>
  /\ isProcessing = FALSE
  /\ topicInput = ""
  /\ difficultyInput = "Beginner"
  /\ humanInput = ""
  /\ showHumanPrompt = FALSE
  /\ currentStep = NULL
  /\ inflight = <<>>
  /\ timers = <<>>
  /\ started = 0
  /\ budget = FairInvocations

ResolveSuccessfully ==
  /\ timers = <<>>
  /\ \E i \in 1..Len(inflight) :
       \E text \in ResponseTexts(inflight[i].targetAgent) \ {""} :
         InvokerResolve(i, text)

ClickSubmitSuspended ==
  /\ showHumanPrompt
  /\ inflight = <<>>
  /\ timers = <<>>
  /\ ClickSubmit

NextFair ==
  \/ TypeTopic("Photosynthesis")
  \/ TypeHumanInput("B, A, C")
  \/ ClickStart
  \/ ClickSubmitSuspended
  \/ ResolveSuccessfully
  \/ TimerFire

SpecFair ==
  /\ InitFair
  /\ [][NextFair]_vars
  /\ WF_vars(ResolveSuccessfully)
  /\ WF_vars(TimerFire)
  /\ WF_vars(TypeHumanInput("B, A, C"))
  /\ WF_vars(ClickSubmitSuspended)


\* ---------------------------------------------------------------- claims
Last(seq) == seq[Len(seq)]

\* The loop rests at the human gate: the prompt is raised, the loop's last
\* act was the AWAIT_HUMAN decision, and nothing is in flight or queued.
Suspended ==
  /\ showHumanPrompt
  /\ inflight = <<>>
  /\ timers = <<>>
  /\ logs # <<>>
  /\ Last(logs).type = "decision"

\* The loop has logged the TERMINATE decision in the current session.
Terminated ==
  \E k \in 1..Len(logs) :
    /\ logs[k].agent = END
    /\ logs[k].content = <<"Learning objective reached or max turns exceeded.">>

\* A step that is not a startSession.
SameSession == started' = started

\* C1: in every reachable state at most one agent invocation is in flight.
C1_AtMostOneInFlight == Len(inflight) <= 1

\* C2: in every reachable state turnCount <= maxTurns, and no invocation is
\* ever started on a state with turnCount >= maxTurns.
C2_TurnCountWithinMax ==
  /\ state.turnCount <= state.maxTurns
  /\ \A i \in 1..Len(inflight) :
       inflight[i].currentState.turnCount < inflight[i].currentState.maxTurns

\* C3: within a session turnCount never decreases, and it changes only when
\* an agent invocation settles successfully, by exactly 1.
C3_TurnCountStepsByOne ==
  [][ SameSession =>
        \/ state'.turnCount = state.turnCount
        \/ /\ state'.turnCount = state.turnCount + 1
           /\ Len(inflight') < Len(inflight) ]_vars

\* C4: when invocation i fails, exactly one error entry is appended, the
\* session state is not changed by the failed turn, nothing is scheduled or
\* started, and determineNextAgent of the resulting state is the agent that
\* failed.
C4_FailureLeavesRetry ==
  [][ \A i \in 1..Len(inflight) :
        runStepCatch(i) =>
          /\ Len(logs') = Len(logs) + 1
          /\ Last(logs').type = "error"
          /\ Last(logs').agent = inflight[i].targetAgent
          /\ state' = state
          /\ timers' = timers
          /\ Len(inflight') = Len(inflight) - 1
          /\ determineNextAgent(state') = inflight[i].targetAgent ]_vars

\* C5: handleHumanSubmit with non-empty text while the session is not
\* suspended at the human gate changes neither state nor log and starts no
\* invocation.
C5_SubmitWhileNotSuspendedIsNoOp ==
  [][ (~Suspended /\ humanInput # "" /\ handleHumanSubmit) =>
        /\ state' = state
        /\ logs' = logs
        /\ inflight' = inflight ]_vars

\* C6: once the TERMINATE decision has been logged, until the next
\* startSession no invocation starts, the session state does not change and
\* the human prompt is not raised.
C6_TerminatedStaysTerminated ==
  [][ (Terminated /\ SameSession) =>
        /\ state' = state
        /\ Len(inflight') <= Len(inflight)
        /\ timers' = timers
        /\ (showHumanPrompt' => showHumanPrompt) ]_vars

\* C7: while the session is suspended at the human gate, a step other than
\* handleHumanSubmit changes neither the session state nor the log and starts
\* or completes no invocation.
C7_SuspendedIsFrozen ==
  [][ (Suspended /\ ~handleHumanSubmit) =>
        /\ state' = state
        /\ logs' = logs
        /\ inflight' = inflight
        /\ showHumanPrompt' ]_vars

\* C8: with the prompt raised, quiz set and studentAnswers unset, a
\* submission of non-empty text sets studentAnswers to exactly the text,
\* changes no other field, clears the prompt, and the invocation it starts is
\* the Feedback-Analyzer's, on the updated state.
C8_StudentSubmit ==
  [][ ( /\ showHumanPrompt
        /\ state.quiz # NULL
        /\ state.studentAnswers = NULL
        /\ humanInput # ""
        /\ ClickSubmit ) =>
        /\ state' = [state EXCEPT !.studentAnswers = humanInput]
        /\ ~showHumanPrompt'
        /\ Len(inflight') = Len(inflight) + 1
        /\ Last(inflight').targetAgent = FEEDBACK_ANALYZER
        /\ Last(inflight').currentState = state'
        /\ currentStep' = FEEDBACK_ANALYZER ]_vars

C8_Witness ==
  /\ state.studentAnswers = "B, A, C"
  /\ state.feedback = NULL
  /\ ~showHumanPrompt
  /\ Len(inflight) = 1
  /\ inflight[1].targetAgent = FEEDBACK_ANALYZER
  /\ Len(logs) >= 2
  /\ logs[Len(logs) - 1].content = <<"Student Answer: ", "B, A, C">>

\* The ordered rule list 1-11 of the selector, in the specification's words.
IsSet(v) == v # NULL

RuleHolds(k, s) ==
  CASE k = 1  -> s.turnCount >= s.maxTurns
    [] k = 2  -> ~IsSet(s.lessonPlan)
    [] k = 3  -> ~IsSet(s.explanation)
    [] k = 4  -> ~IsSet(s.quiz)
    [] k = 5  -> IsSet(s.quiz) /\ ~IsSet(s.studentAnswers)
    [] k = 6  -> IsSet(s.studentAnswers) /\ ~IsSet(s.feedback)
    [] k = 7  -> IsSet(s.feedback) /\ ~IsSet(s.motivatorMessage)
    [] k = 8  -> IsSet(s.motivatorMessage) /\ ~IsSet(s.reviewerApproved)
    [] k = 9  -> s.reviewerApproved = JS_TRUE /\ s.confidence >= 8
    [] k = 10 -> s.reviewerApproved = JS_FALSE
    [] k = 11 -> TRUE

RuleDecision(k) ==
  CASE k = 1  -> END
    [] k = 2  -> CURRICULUM_PLANNER
    [] k = 3  -> CONCEPT_EXPLAINER
    [] k = 4  -> QUIZ_GENERATOR
    [] k = 5  -> HUMAN_APPROVAL
    [] k = 6  -> FEEDBACK_ANALYZER
    [] k = 7  -> MOTIVATOR
    [] k = 8  -> QUALITY_REVIEWER
    [] k = 9  -> END
    [] k = 10 -> HUMAN_APPROVAL
    [] k = 11 -> END

FirstRule(s) ==
  CHOOSE k \in 1..11 : RuleHolds(k, s) /\ \A j \in 1..(k - 1) : ~RuleHolds(j, s)

\* C9: for every state over the bounded field values determineNextAgent
\* returns exactly the decision of the first matching rule of the list 1-11,
\* and the decision taken by a selection is that one.
C9_SelectorFollowsRuleList ==
  /\ determineNextAgent(state) = RuleDecision(FirstRule(state))
  /\ state.turnCount >= state.maxTurns => determineNextAgent(state) = END
  /\ currentStep # NULL => currentStep = RuleDecision(FirstRule(state))

C9_Witness ==
  /\ currentStep = END
  /\ FirstRule(state) = 11
  /\ state.reviewerApproved = JS_TRUE
  /\ state.confidence = 5
  /\ state.turnCount = MaxTurns - 1

\* C10: whenever the selector returns HUMAN_APPROVAL the hint is the student
\* one exactly when quiz is set and studentAnswers unset, and the supervisor
\* one only with motivatorMessage set and reviewerApproved false; and a
\* non-empty submission is written to studentAnswers if and only if the
\* student hint was the one shown.
C10_HintMatchesState ==
  determineNextAgent(state) = HUMAN_APPROVAL =>
    /\ ContextHint = "STUDENT" <=> (state.quiz # NULL /\ state.studentAnswers = NULL)
    /\ ContextHint = "SUPERVISOR" =>
         (state.motivatorMessage # NULL /\ state.reviewerApproved = JS_FALSE)

C10_HintAndRoutingAgree ==
  /\ []C10_HintMatchesState
  /\ [][ (humanInput # "" /\ ClickSubmit) =>
           ( (ContextHint = "STUDENT") <=>
             (state.studentAnswers # humanInput /\ state'.studentAnswers = humanInput) )
       ]_vars

C10_Witness ==
  /\ showHumanPrompt
  /\ determineNextAgent(state) = HUMAN_APPROVAL
  /\ ContextHint = "SUPERVISOR"
  /\ \E k \in 1..Len(logs) : logs[k].content = <<"Student Answer: ", "B, A, C">>
  /\ \E k \in 1..Len(logs) : logs[k].content = <<"Human feedback: ", "B, A, C">>


\* The topic and the difficulty the current session was started with, as its
\* first log entry records them.
SessionTopic == logs[1].content[2]
SessionDifficulty == logs[1].content[4]

\* C11: after startSession(t, d) and until the next startSession the session
\* state's topic is t and its difficulty is d: no turn of the previous session
\* writes its state into the new session.
C11_SessionKeepsTopicAndDifficulty ==
  logs # <<>> =>
    /\ state.topic = SessionTopic
    /\ state.difficulty = SessionDifficulty

\* C12: whenever the prompt is raised nothing is in flight or queued and the
\* selector returns HUMAN_APPROVAL for the current state; and whenever the
\* loop's last act was the AWAIT_HUMAN decision the prompt is raised.
C12_PromptIffSuspended ==
  /\ showHumanPrompt =>
       /\ inflight = <<>>
       /\ timers = <<>>
       /\ determineNextAgent(state) = HUMAN_APPROVAL
  /\ (logs # <<>> /\ Last(logs).type = "decision") => showHumanPrompt

\* C13: the invoker is only ever called for one of the six working agents.
C13_OnlyWorkingAgentsInvoked ==
  \A i \in 1..Len(inflight) : inflight[i].targetAgent \in WorkingAgents

\* C14: in supervisor context (reviewerApproved false) a non-empty submission
\* appends a log entry carrying the text, clears the prompt and leaves the
\* session state as it is; and when the resumption it starts comes to rest the
\* state is still the one the submission was made on.
C14_SupervisorSubmitKeepsState ==
  [][ /\ ( /\ Suspended
           /\ state.reviewerApproved = JS_FALSE
           /\ humanInput # ""
           /\ ClickSubmit ) =>
           /\ state' = state
           /\ ~showHumanPrompt'
           /\ logs'[Len(logs) + 1].content = <<"Human feedback: ", humanInput>>
      /\ \A i \in 1..Len(inflight) :
           ( /\ inflight[i].targetAgent = HUMAN_APPROVAL
             /\ inflight[i].currentState.reviewerApproved = JS_FALSE
             /\ inflight' = RemoveAt(inflight, i)
             /\ logs' # logs ) =>
             state' = inflight[i].currentState ]_vars

ArtifactFields == {"lessonPlan", "explanation", "quiz", "studentAnswers",
                   "feedback", "motivatorMessage", "reviewerApproved"}

\* In the log l no working agent is announced again after an output of its own.
NoReinvocation(l) ==
  \A j \in 1..Len(l) : \A k \in (j + 1)..Len(l) :
    ~ ( /\ l[j].agent \in WorkingAgents
        /\ l[j].type = "output"
        /\ l[k].agent = l[j].agent
        /\ l[k].type = "status" )

\* C15: within a session a set artifact field is never overwritten or unset
\* again, and no agent is invoked again after it has produced its artifact.
C15_ArtifactsSetOnce ==
  [][ SameSession =>
        /\ \A f \in ArtifactFields : state[f] # NULL => state'[f] = state[f]
        /\ NoReinvocation(logs') ]_vars

\* C16: startSession with an empty topic and handleHumanSubmit with an empty
\* text change neither the session state, the log, the prompt nor the busy
\* flag, and start no invocation.
C16_InvalidInputRejected ==
  [][ /\ (topicInput = "" /\ CallStart) =>
           /\ state' = state /\ logs' = logs
           /\ showHumanPrompt' = showHumanPrompt /\ isProcessing' = isProcessing
           /\ inflight' = inflight /\ timers' = timers
      /\ (humanInput = "" /\ CallSubmit) =>
           /\ state' = state /\ logs' = logs
           /\ showHumanPrompt' = showHumanPrompt /\ isProcessing' = isProcessing
           /\ inflight' = inflight /\ timers' = timers ]_vars

\* A session is under way, the prompt is raised and both input boxes are
\* empty: either handler called here is called with invalid input.
C16_Witness ==
  /\ topicInput = ""
  /\ humanInput = ""
  /\ showHumanPrompt
  /\ state.turnCount > 0
  /\ logs # <<>>

\* C17: a startSession with a non-empty topic leaves a fresh session: the
\* initial state with the given topic and difficulty, a log holding only the
\* new session's first entries, the prompt not raised, and the
\* Curriculum-Planner as the agent invoked.
C17_StartGivesFreshSession ==
  [][ started' = started + 1 =>
        /\ state' = [INITIAL_STATE EXCEPT !.topic = topicInput,
                                          !.difficulty = difficultyInput]
        /\ Len(logs') = 2
        /\ logs'[1].content = <<"Initializing session for: ", topicInput, " (",
                                difficultyInput, ")">>
        /\ Last(inflight').targetAgent = CURRICULUM_PLANNER
        /\ ~showHumanPrompt' ]_vars

ApprovedVerdicts == {ApprovedHigh, ApprovedEdge, ApprovedLow}

\* C18: when a Quality-Reviewer turn succeeds with an approving verdict the
\* turn logs END, queues no continuation and does not raise the prompt,
\* whatever the confidence; with a rejecting verdict it raises the prompt in
\* supervisor context and queues nothing.
C18_ReviewerVerdictDecides ==
  [][ \A i \in 1..Len(inflight) :
        inflight[i].targetAgent = QUALITY_REVIEWER =>
          /\ \A out \in ApprovedVerdicts :
               runStepFold(i, out) =>
                 /\ state'.reviewerApproved = JS_TRUE
                 /\ determineNextAgent(state') = END
                 /\ Terminated'
                 /\ Last(logs').agent = END
                 /\ timers' = timers
                 /\ showHumanPrompt' = showHumanPrompt
                 /\ Len(inflight') = Len(inflight) - 1
          /\ runStepFold(i, Rejected) =>
               /\ state'.reviewerApproved = JS_FALSE
               /\ determineNextAgent(state') = HUMAN_APPROVAL
               /\ showHumanPrompt'
               /\ Last(logs').type = "decision"
               /\ ContextHint' = "SUPERVISOR"
               /\ timers' = timers
               /\ Len(inflight') = Len(inflight) - 1 ]_vars

\* The reviewer approved with confidence 0.5 and the session ended there.
C18_Witness ==
  /\ state.reviewerApproved = JS_TRUE
  /\ state.confidence = 5
  /\ logs # <<>>
  /\ Last(logs).agent = END
  /\ inflight = <<>>
  /\ timers = <<>>
  /\ ~showHumanPrompt

\* C19: reviewerApproved and reviewerComments are both unset with confidence
\* 0, or both set with reviewerApproved a definite true or false.
C19_ReviewerFieldsTogether ==
  \/ /\ state.reviewerApproved = NULL
     /\ state.reviewerComments = NULL
     /\ state.confidence = 0
  \/ /\ state.reviewerApproved \in {JS_TRUE, JS_FALSE}
     /\ state.reviewerComments # NULL

IsPrefix(l, m) == Len(l) <= Len(m) /\ SubSeq(m, 1, Len(l)) = l

\* The entry is the result of a turn: an agent's output or its failure.
TurnResult(e) ==
  \/ e.type = "error"
  \/ e.type = "output" /\ e.content[1] \notin {"Student Answer: ", "Human feedback: "}

\* In the log l every turn's result comes after the status entry that
\* announces its agent.
AnnouncedBeforeResult(l) ==
  \A k \in 1..Len(l) :
    TurnResult(l[k]) =>
      \E j \in 1..(k - 1) :
        /\ l[j].type = "status"
        /\ l[j].content = <<"Agent ", l[k].agent, " starting...">>

\* C20: except for startSession every step that changes the log appends to
\* it, and in the log a turn's status entry precedes its output or error.
C20_LogAppendOnly ==
  [][ /\ SameSession => IsPrefix(logs, logs')
      /\ AnnouncedBeforeResult(logs') ]_vars

PipelineOrder == <<"lessonPlan", "explanation", "quiz", "studentAnswers",
                   "feedback", "motivatorMessage", "reviewerApproved">>

\* C21: the set artifacts of the session state are a prefix of the pipeline
\* order: a field is set only if the field before it in the order is set.
C21_ArtifactsFormPrefix ==
  \A k \in 2..Len(PipelineOrder) :
    IsSet(state[PipelineOrder[k]]) => IsSet(state[PipelineOrder[k - 1]])

\* The student's answers were submitted and the Feedback-Analyzer has added
\* its feedback after them; the Motivator has not run yet.
C21_Witness ==
  /\ IsSet(state.studentAnswers)
  /\ IsSet(state.feedback)
  /\ ~IsSet(state.motivatorMessage)

\* The number of agent outputs in the log l: the successful turns of the session.
SuccessfulTurns(l) ==
  Cardinality({k \in 1..Len(l) : l[k].type = "output" /\ TurnResult(l[k])})

\* The loop has just logged its END entry.
EndLogged == logs # <<>> /\ Last(logs).agent = END

\* Every started session eventually has the END entry in its log.
C22_EventuallyTerminated == (started > 0) ~> Terminated

\* C22: under fairness every started session eventually terminates, and when
\* the loop logs END the session has had at most maxTurns successful turns.
C22_TerminatesWithinMaxTurns ==
  /\ C22_EventuallyTerminated
  /\ [](EndLogged => SuccessfulTurns(logs) <= MaxTurns)
=============================================================================
